---- MODULE Spec2Model ----
(***************************************************************************)
(* TolStack AI: the linear tolerance stack-up engine (App.results and the  *)
(* handlers of the dimension list) and the hole-pattern fit engine         *)
(* (HoleFitCalculator.analysis and the handlers of its form).              *)
(*                                                                         *)
(* Numbers.  The source computes in IEEE doubles.  The model computes in   *)
(* exact fixed point: a length is an integer count of 0.00005 (1/20000 of  *)
(* the display unit), and every length entered in a form is a multiple of  *)
(* 0.0001, i.e. an even integer, so that the halvings of the source        *)
(* ((tolerancePlus + toleranceMinus) / 2, totalBudget / 2) are exact.      *)
(* Math.sqrt is the integer square root (rounded down to the resolution),  *)
(* Math.exp and the normal-tail polynomial are evaluated in fixed point    *)
(* with four decimals.  Rounding noise of the doubles below that           *)
(* resolution is not modelled.                                             *)
(***************************************************************************)
EXTENDS Integers, Sequences, FiniteSets, TLC

VARIABLES
    dimensions,   \* App: useState<Dimension[]>
    results,      \* App: useMemo over [dimensions]
    aiAnalysis,   \* App: useState<AIAnalysisResult>
    edits,        \* number of field edits made so far (bounds the session)
    requests,     \* App: calls of analyzeStackupWithGemini not yet settled
    unit,         \* HoleFitCalculator: useState<Unit>
    mode,         \* HoleFitCalculator: useState<AssemblyType>
    pin,          \* HoleFitCalculator: useState<PartDimension>
    hole1,
    hole2,
    deviation,    \* HoleFitCalculator: misalignment {x, y}
    analysis      \* HoleFitCalculator: useMemo over the form state

linVars  == <<dimensions, results, aiAnalysis, edits, requests>>
holeVars == <<unit, mode, pin, hole1, hole2, deviation, analysis>>
vars     == <<dimensions, results, aiAnalysis, edits, requests,
              unit, mode, pin, hole1, hole2, deviation, analysis>>

----------------------------------------------------------------------------
(* Bounds of the exploration *)

MaxDims  == 3   \* addDimension is offered while the list is shorter
MaxEdits == 1   \* field edits (updateDimension) per session of App
MaxLen   == 2   \* longest input list the engine is enumerated on
MaxRequests == 2      \* AI audits in flight at once
MaxThousandths == 127 \* converted values range over -0.127 .. 0.127

----------------------------------------------------------------------------
(* Fixed-point numbers *)

Hundredths(h)  == h * 200     \* 0.01  of the display unit
Thousandths(t) == t * 20      \* 0.001 of the display unit
Epsilon        == Thousandths(1)   \* the 0.001 of (sigma || 0.001)
PScale         == 10 * 1000   \* 1.0 in the four-decimal fixed point of z, t, p

Abs(x) == IF x < 0 THEN -x ELSE x

RECURSIVE SqrtSearch(_, _, _)
SqrtSearch(n, lo, hi) ==
    IF lo >= hi THEN lo
    ELSE LET mid == (lo + hi + 1) \div 2
         IN  IF mid * mid <= n THEN SqrtSearch(n, mid, hi)
                               ELSE SqrtSearch(n, lo, mid - 1)

\* Math.sqrt, rounded down to the resolution
Sqrt(n) == SqrtSearch(n, 0, 46340)

\* a * b for fixed-point factors of magnitude below 4.6
Mul(a, b) == IF (a < 0) = (b < 0) THEN (Abs(a) * Abs(b)) \div PScale
                                  ELSE -((Abs(a) * Abs(b)) \div PScale)

----------------------------------------------------------------------------
(* Data model *)

INCREASING == "INCREASING"
DECREASING == "DECREASING"
DimensionType == {INCREASING, DECREASING}

\* a Dimension; name and description are display text that no calculation
\* reads, and are left out
Dim(id, nominal, plus, minus, type) ==
    [id |-> id, nominal |-> nominal, tolerancePlus |-> plus,
     toleranceMinus |-> minus, type |-> type]

INITIAL_DIMENSIONS ==
    << Dim("1", Hundredths(2000), Hundredths(20), Hundredths(20), INCREASING),
       Dim("2", Hundredths(160),  Hundredths(10), Hundredths(10), DECREASING),
       Dim("3", Hundredths(500),  Hundredths(5),  Hundredths(5),  DECREASING),
       Dim("4", Hundredths(1250), Hundredths(30), Hundredths(10), DECREASING) >>

\* SAMPLE_SCENARIOS: the dimensions of each scenario, before ids are generated
ScenarioIds == {"enclosure", "oring", "button"}

SAMPLE_SCENARIOS(s) ==
    CASE s = "enclosure" ->
           << Dim("", Hundredths(2500), Hundredths(15), Hundredths(15), INCREASING),
              Dim("", Hundredths(320),  Hundredths(20), Hundredths(20), DECREASING),
              Dim("", Hundredths(800),  Hundredths(10), Hundredths(10), DECREASING),
              Dim("", Hundredths(1250), Hundredths(30), Hundredths(10), DECREASING),
              Dim("", Hundredths(100),  Hundredths(20), Hundredths(10), DECREASING) >>
      [] s = "oring" ->
           << Dim("", Hundredths(340),  Hundredths(5),  Hundredths(5),  INCREASING),
              Dim("", Hundredths(400),  Hundredths(10), Hundredths(10), DECREASING) >>
      [] s = "button" ->
           << Dim("", Hundredths(850),  Hundredths(15), Hundredths(15), INCREASING),
              Dim("", Hundredths(350),  Hundredths(10), Hundredths(10), DECREASING),
              Dim("", Hundredths(480),  Hundredths(5),  Hundredths(5),  DECREASING) >>
      [] OTHER -> << >>

ClearedAnalysis == [text |-> "", isLoading |-> FALSE, error |-> "null"]

----------------------------------------------------------------------------
(* LinearStackupEngine: the body of App.results *)

ZeroSums ==
    [sumIncNom |-> 0, sumDecNom |-> 0, sumIncMax |-> 0, sumIncMin |-> 0,
     sumDecMax |-> 0, sumDecMin |-> 0, rssSumSquares |-> 0]

\* a plausible slip: the half-band taken as a difference
AvgTolDifference(d) == (d.tolerancePlus - d.toleranceMinus) \div 2

\* (d.tolerancePlus + d.toleranceMinus) / 2
AvgTol(d) == (d.tolerancePlus + d.toleranceMinus) \div 2

\* a plausible slip: the bounds of an increasing part taken the wrong way round
AccumulateSwapped(acc, d) ==
    LET sq == AvgTol(d) * AvgTol(d)
    IN  IF d.type = INCREASING
        THEN [acc EXCEPT !.sumIncNom = @ + d.nominal,
                         !.sumIncMax = @ + (d.nominal - d.toleranceMinus),
                         !.sumIncMin = @ + (d.nominal + d.tolerancePlus),
                         !.rssSumSquares = @ + sq]
        ELSE [acc EXCEPT !.sumDecNom = @ + d.nominal,
                         !.sumDecMax = @ + (d.nominal + d.tolerancePlus),
                         !.sumDecMin = @ + (d.nominal - d.toleranceMinus),
                         !.rssSumSquares = @ + sq]

\* a plausible slip: the else branch accumulates into the increasing sum
AccumulateNoElse(acc, d) ==
    LET sq == AvgTol(d) * AvgTol(d)
    IN  IF d.type = INCREASING
        THEN [acc EXCEPT !.sumIncNom = @ + d.nominal,
                         !.sumIncMax = @ + (d.nominal + d.tolerancePlus),
                         !.sumIncMin = @ + (d.nominal - d.toleranceMinus),
                         !.rssSumSquares = @ + sq]
        ELSE [acc EXCEPT !.sumIncNom = @ + d.nominal,
                         !.sumDecMax = @ + (d.nominal + d.tolerancePlus),
                         !.sumDecMin = @ + (d.nominal - d.toleranceMinus),
                         !.rssSumSquares = @ + sq]

\* the body of dimensions.forEach
Accumulate(acc, d) ==
    LET sq == AvgTol(d) * AvgTol(d)
    IN  IF d.type = INCREASING
        THEN [acc EXCEPT !.sumIncNom = @ + d.nominal,
                         !.sumIncMax = @ + (d.nominal + d.tolerancePlus),
                         !.sumIncMin = @ + (d.nominal - d.toleranceMinus),
                         !.rssSumSquares = @ + sq]
        ELSE [acc EXCEPT !.sumDecNom = @ + d.nominal,
                         !.sumDecMax = @ + (d.nominal + d.tolerancePlus),
                         !.sumDecMin = @ + (d.nominal - d.toleranceMinus),
                         !.rssSumSquares = @ + sq]

RECURSIVE ForEach(_, _)
ForEach(dims, acc) ==
    IF dims = << >> THEN acc
    ELSE ForEach(Tail(dims), Accumulate(acc, Head(dims)))

\* dimensions.reduce((acc, d) => acc + t*t, 0)
RECURSIVE RssReduce(_, _)
RssReduce(dims, acc) ==
    IF dims = << >> THEN acc
    ELSE LET t == AvgTol(Head(dims))
         IN  RssReduce(Tail(dims), acc + t * t)

\* a plausible slip: the epsilon of the z-score guards the tolerance itself
RssTolEpsilon(dims) ==
    IF RssReduce(dims, 0) = 0 THEN Epsilon ELSE Sqrt(RssReduce(dims, 0))

\* a plausible slip: the square root is left out
RssTolNoRoot(dims) == RssReduce(dims, 0)

\* const rssTol = Math.sqrt(dimensions.reduce(...))
RssTol(dims) == Sqrt(RssReduce(dims, 0))

----------------------------------------------------------------------------
(* NormalTail: the probability block of App.results.  z, t, d and p are    *)
(* fixed-point numbers with PScale = 1.0; the result is a percentage with  *)
(* the same four decimals (50 percent = 50 * PScale).                      *)

C_T   == 2316      \* 0.2316419
C_PHI == 3989      \* 0.3989423
C_B1  == 3194      \* 0.3193815
C_B2  == -3566     \* -0.3565638
C_B3  == 17815     \* 1.781478
C_B4  == -18213    \* -1.821256
C_B5  == 13303     \* 1.330274

\* The z-score is kept up to ZSat = 4.0; beyond it exp(-z*z/2) and the tail
\* are below the resolution, so a larger |z| is held at ZSat.
ZSat == 4 * PScale

Ratio(num, den) ==
    IF num \div den >= ZSat \div PScale THEN ZSat ELSE (num * PScale) \div den

\* (0 - nominalGap) / (sigma || 0.001), with sigma = rssTol / 3
ZScore(nominalGap, rssTol) ==
    LET mag == IF rssTol # 0 THEN Ratio(3 * Abs(nominalGap), rssTol)
                             ELSE Ratio(Abs(nominalGap), Epsilon)
    IN  IF 0 - nominalGap < 0 THEN -mag ELSE mag

\* exp(-k) for whole k
ExpWhole(k) ==
    CASE k = 0 -> 10000 [] k = 1 -> 3679 [] k = 2 -> 1353 [] k = 3 -> 498
      [] k = 4 -> 183   [] k = 5 -> 67   [] k = 6 -> 25   [] k = 7 -> 9
      [] k = 8 -> 3     [] k = 9 -> 1    [] OTHER -> 0

\* exp(-f) for 0 <= f < 1: 1 - f/n * (1 - f/(n+1) * ( ... )), nine terms
RECURSIVE ExpSeries(_, _)
ExpSeries(f, n) ==
    IF n > 9 THEN PScale
    ELSE PScale - (f * ExpSeries(f, n + 1)) \div (n * PScale)

\* Math.exp(-x) for x >= 0
ExpNeg(x) == Mul(ExpWhole(x \div PScale), ExpSeries(x % PScale, 1))

\* a plausible slip: the complement is taken on the wrong side of the mean
NormalTailWrongSide(zScore) ==
    LET t == (PScale * PScale) \div (PScale + Mul(C_T, Abs(zScore)))
        d == Mul(C_PHI, ExpNeg(Mul(zScore, zScore) \div 2))
        poly == C_B1 + Mul(t, C_B2 + Mul(t, C_B3 + Mul(t, C_B4 + Mul(t, C_B5))))
        p == Mul(Mul(d, t), poly)
    IN  (IF zScore < 0 THEN PScale - p ELSE p) * 100

\* lines 136-140: t, d, p, the complement for zScore > 0, and p * 100
NormalTail(zScore) ==
    LET t == (PScale * PScale) \div (PScale + Mul(C_T, Abs(zScore)))
        d == Mul(C_PHI, ExpNeg(Mul(zScore, zScore) \div 2))
        poly == C_B1 + Mul(t, C_B2 + Mul(t, C_B3 + Mul(t, C_B4 + Mul(t, C_B5))))
        p == Mul(Mul(d, t), poly)
    IN  (IF zScore > 0 THEN PScale - p ELSE p) * 100

\* let prob = 0; if (sigma > 0) { ... prob = p * 100 }
InterferenceProb(nominalGap, rssTol) ==
    IF rssTol > 0 THEN NormalTail(ZScore(nominalGap, rssTol)) ELSE 0

\* a plausible slip: the RSS band is offset to one side only
computeStackupOneSided(dims) ==
    LET s == ForEach(dims, ZeroSums)
        nominalGap == s.sumIncNom - s.sumDecNom
        rssTol == RssTol(dims)
    IN  [nominalGap |-> nominalGap,
         worstCaseMin |-> s.sumIncMin - s.sumDecMax,
         worstCaseMax |-> s.sumIncMax - s.sumDecMin,
         rssMin |-> nominalGap,
         rssMax |-> nominalGap + 2 * rssTol,
         contributors |-> Len(dims),
         interferenceProb |-> InterferenceProb(nominalGap, rssTol)]

\* the body of the useMemo: App.results for a dimension list
computeStackup(dims) ==
    LET s == ForEach(dims, ZeroSums)
        nominalGap == s.sumIncNom - s.sumDecNom
        rssTol == RssTol(dims)
    IN  [nominalGap |-> nominalGap,
         worstCaseMin |-> s.sumIncMin - s.sumDecMax,
         worstCaseMax |-> s.sumIncMax - s.sumDecMin,
         rssMin |-> nominalGap - rssTol,
         rssMax |-> nominalGap + rssTol,
         contributors |-> Len(dims),
         interferenceProb |-> InterferenceProb(nominalGap, rssTol)]

----------------------------------------------------------------------------
(* App.renderStatus: the banner over the results *)

\* a plausible slip: the banner consults the worst case only
renderStatusWorstCaseOnly(r) ==
    IF r.worstCaseMin < 0 THEN "Interference Detected (Worst Case)"
    ELSE "Assembly Safe (Clearance Guaranteed)"

renderStatus(r) ==
    IF r.worstCaseMin < 0 THEN "Interference Detected (Worst Case)"
    ELSE IF r.rssMin < 0 THEN "Statistical Interference Risk"
    ELSE "Assembly Safe (Clearance Guaranteed)"

----------------------------------------------------------------------------
(* generateExcelXML: the formulas of the exported sheet, evaluated as the  *)
(* spreadsheet evaluates them when the file is opened.  A data row holds   *)
(* the cells Nominal (column 3), Tol + (4), Tol - (5), Type (6) and the    *)
(* formula cells Sign (7), Eff. Nominal (8), WC Max Part (9), WC Min Part  *)
(* (10) and RSS Term (11).                                                 *)

\* =IF(RC[-1]="INCREASING",1,-1)
formulaSign(d) == IF d.type = INCREASING THEN 1 ELSE -1

\* =RC[-5]*RC[-1]
formulaEffNom(d) == d.nominal * formulaSign(d)

\* a plausible slip: the decreasing branch reads Tol + (RC[-5]) again
formulaWCMaxSameColumn(d) ==
    IF formulaSign(d) = 1 THEN d.nominal + d.tolerancePlus
    ELSE -(d.nominal - d.tolerancePlus)

\* =IF(RC[-2]=1, RC[-6]+RC[-5], -(RC[-6]-RC[-4]))
formulaWCMax(d) ==
    IF formulaSign(d) = 1 THEN d.nominal + d.tolerancePlus
    ELSE -(d.nominal - d.toleranceMinus)

\* =IF(RC[-3]=1, RC[-7]-RC[-5], -(RC[-7]+RC[-6]))
formulaWCMin(d) ==
    IF formulaSign(d) = 1 THEN d.nominal - d.toleranceMinus
    ELSE -(d.nominal + d.tolerancePlus)

\* =((RC[-7]+RC[-6])/2)^2
formulaRSS(d) ==
    ((d.tolerancePlus + d.toleranceMinus) \div 2)
  * ((d.tolerancePlus + d.toleranceMinus) \div 2)

\* dimensions.forEach: one data row per dimension, from row 2 down
DataRows(dims) ==
    [i \in 1..Len(dims) |->
        [sign |-> formulaSign(dims[i]),
         effNom |-> formulaEffNom(dims[i]),
         wcMax |-> formulaWCMax(dims[i]),
         wcMin |-> formulaWCMin(dims[i]),
         rssTerm |-> formulaRSS(dims[i])]]

\* =SUM(R2Cc:R{endRow}Cc) with endRow = dimensions.length + 1.  For the
\* empty list the range R2:R1 covers the header cell, a text that SUM
\* leaves out, and the empty row 2: the sum is 0.
RECURSIVE SumColumn(_, _)
SumColumn(rows, column) ==
    IF rows = << >> THEN 0
    ELSE Head(rows)[column] + SumColumn(Tail(rows), column)

\* the summary rows of the sheet
generateExcelXML(dims) ==
    LET rows == DataRows(dims)
    IN  [nominalGap |-> SumColumn(rows, "effNom"),
         worstCaseMax |-> SumColumn(rows, "wcMax"),
         worstCaseMin |-> SumColumn(rows, "wcMin"),
         \* =SQRT(SUM(R2C11:R{endRow}C11))*3
         rssRange |-> Sqrt(SumColumn(rows, "rssTerm")) * 3]

----------------------------------------------------------------------------
(* StackVisualizer: the loop diagram.  Pixel positions are quotients of    *)
(* lengths; the model keeps them exact, as a numerator over a positive     *)
(* denominator.                                                            *)

\* increasingList / decreasingList .reduce((acc, cur) => acc + cur.width, 0)
RECURSIVE TotalWidth(_, _)
TotalWidth(dims, type) ==
    IF dims = << >> THEN 0
    ELSE (IF Head(dims).type = type THEN Head(dims).nominal ELSE 0)
         + TotalWidth(Tail(dims), type)

\* five times safeMaxW: maxW = Math.max(totalInc, totalDec) * 1.2, replaced
\* by 100 when it is 0
SafeMaxW5(dims) ==
    LET totalInc == TotalWidth(dims, INCREASING)
        totalDec == TotalWidth(dims, DECREASING)
        maxTotal == IF totalInc > totalDec THEN totalInc ELSE totalDec
    IN  IF maxTotal = 0 THEN 5 * Hundredths(100 * 100) ELSE 6 * maxTotal

\* gapPixelWidth = pointC - pointA: the cursor starts at padding, advances by
\* width * scale over the increasing bars and goes back by width * scale over
\* the decreasing ones, with scale = 800 / safeMaxW
gapPixelWidth(dims) ==
    LET travelled == TotalWidth(dims, INCREASING) - TotalWidth(dims, DECREASING)
        den == SafeMaxW5(dims)
    IN  [num |-> IF den < 0 THEN -(800 * 5 * travelled) ELSE 800 * 5 * travelled,
         den |-> Abs(den)]

\* const isInterference = gapPixelWidth < 0
isInterference(dims) == gapPixelWidth(dims).num < 0

\* {isInterference ? "Interference" : "Gap"}
GapLabel(dims) == IF isInterference(dims) THEN "Interference" ELSE "Gap"

----------------------------------------------------------------------------
(* App: the handlers of the dimension list.  Each handler ends with the    *)
(* re-render that re-evaluates the useMemo, so it also sets results.       *)

\* generateId(): Math.random().toString(36).substr(2, 9) can repeat, and can
\* return the id of an initial dimension ("1")
GeneratedIds == {"1", "x"}

\* the ids generateId() gives the dimensions of a loaded scenario
ScenarioDimIds == <<"s1", "s2", "s3", "s4", "s5">>

\* what parseFloat(e.target.value) || 0 and the direction select can deliver
NominalInputs   == {Hundredths(-20), Hundredths(10)}
ToleranceInputs == {Hundredths(-10), 0, Hundredths(20)}

\* the entries made during a session of App: an emptied field (0), either
\* direction
SessionInputs(field) ==
    CASE field = "type" -> DimensionType
      [] field = "nominal" -> {0}
      [] OTHER -> {0}

Fields == {"nominal", "tolerancePlus", "toleranceMinus", "type"}

FieldInputs(field) ==
    CASE field = "nominal" -> NominalInputs
      [] field = "type" -> DimensionType
      [] OTHER -> ToleranceInputs

\* the rows of the editor: one per dimension, each calling the handlers with
\* its own dim.id
Rows(dims) == 1..Len(dims)

\* an onChange of row i: a number input delivers any entry, the direction
\* select only a value other than the one shown
Entry(dims, i, field, value) ==
    field = "type" => value # dims[i].type

addDimension(newId) ==
    /\ Len(dimensions) < MaxDims
    /\ dimensions' = Append(dimensions,
           Dim(newId, Hundredths(1000), Hundredths(10), Hundredths(10), INCREASING))
    /\ results' = computeStackup(dimensions')
    /\ UNCHANGED <<aiAnalysis, edits, requests>>
    /\ UNCHANGED holeVars

updateDimension(id, field, value) ==
    /\ dimensions' = [i \in 1..Len(dimensions) |->
                        IF dimensions[i].id # id THEN dimensions[i]
                        ELSE [dimensions[i] EXCEPT ![field] = value]]
    /\ results' = computeStackup(dimensions')
    /\ UNCHANGED <<aiAnalysis, requests>>
    /\ UNCHANGED holeVars

removeDimension(id) ==
    /\ dimensions' = SelectSeq(dimensions, LAMBDA d : d.id # id)
    /\ results' = computeStackup(dimensions')
    /\ UNCHANGED <<aiAnalysis, edits, requests>>
    /\ UNCHANGED holeVars

\* confirm(...) answers yes or no
handleReset(confirmed) ==
    /\ IF confirmed
       THEN /\ dimensions' = INITIAL_DIMENSIONS
            /\ aiAnalysis' = ClearedAnalysis
       ELSE UNCHANGED <<dimensions, aiAnalysis>>
    /\ results' = computeStackup(dimensions')
    /\ UNCHANGED <<edits, requests>>
    /\ UNCHANGED holeVars

\* ids[i] is the generateId() of the i-th dimension of the scenario
handleLoadScenario(scenarioId, ids) ==
    LET scenario == SAMPLE_SCENARIOS(scenarioId)
    IN  /\ IF scenarioId \in ScenarioIds
           THEN /\ dimensions' = [i \in 1..Len(scenario) |->
                                    [scenario[i] EXCEPT !.id = ids[i]]]
                /\ aiAnalysis' = ClearedAnalysis
           ELSE UNCHANGED <<dimensions, aiAnalysis>>
        /\ results' = computeStackup(dimensions')
        /\ UNCHANGED <<edits, requests>>
        /\ UNCHANGED holeVars

----------------------------------------------------------------------------
(* App: the AI audit (handleRunAI and analyzeStackupWithGemini) *)

MissingKeyText == "API Key is missing. Please check configuration."
FailedText     == "Failed to generate AI analysis. Please try again later."
NoAnalysisText == "No analysis generated."

\* what ai.models.generateContent does: it returns a response with a text,
\* returns one without, or throws
Responses == {"text", "empty", "throws"}

\* a plausible slip: the failure of the call is passed on to the caller
analyzeStackupWithGeminiRethrows(hasKey, response) ==
    IF ~hasKey THEN [settled |-> "resolved", text |-> MissingKeyText]
    ELSE CASE response = "throws" -> [settled |-> "rejected", text |-> ""]
           [] response = "empty"  -> [settled |-> "resolved", text |-> NoAnalysisText]
           [] OTHER               -> [settled |-> "resolved", text |-> "analysis"]

\* how the promise of analyzeStackupWithGemini settles; hasKey is what
\* getAIClient finds in process.env.API_KEY
analyzeStackupWithGemini(hasKey, response) ==
    IF ~hasKey THEN [settled |-> "resolved", text |-> MissingKeyText]
    ELSE CASE response = "throws" -> [settled |-> "resolved", text |-> FailedText]
           [] response = "empty"  -> [settled |-> "resolved", text |-> NoAnalysisText]
           [] OTHER               -> [settled |-> "resolved", text |-> "analysis"]

\* handleRunAI up to its await; the button is disabled while isLoading
handleRunAI ==
    /\ ~aiAnalysis.isLoading
    /\ requests < MaxRequests
    /\ aiAnalysis' = [aiAnalysis EXCEPT !.isLoading = TRUE, !.error = "null"]
    /\ requests' = requests + 1
    /\ UNCHANGED <<dimensions, results, edits>>
    /\ UNCHANGED holeVars

\* handleRunAI after its await: the try branch when the promise resolved,
\* the catch branch when it was rejected
handleRunAISettled(hasKey, response) ==
    LET outcome == analyzeStackupWithGemini(hasKey, response)
    IN  /\ requests > 0
        /\ requests' = requests - 1
        /\ aiAnalysis' =
             IF outcome.settled = "resolved"
             THEN [text |-> outcome.text, isLoading |-> FALSE, error |-> "null"]
             ELSE [text |-> "", isLoading |-> FALSE, error |-> "Analysis failed"]
        /\ UNCHANGED <<dimensions, results, edits>>
        /\ UNCHANGED holeVars

----------------------------------------------------------------------------
(* HoleFitEngine: the body of HoleFitCalculator.analysis *)

FLOATING == "FLOATING"
FIXED    == "FIXED"
AssemblyType == {FLOATING, FIXED}

Part(nominal, plus, minus, spec) ==
    [nominal |-> nominal, tolPlus |-> plus, tolMinus |-> minus, tpSpec |-> spec]

DEFAULT_STATE ==
    [mode  |-> FLOATING,
     pin   |-> Part(Hundredths(600), 0, Hundredths(10), 0),
     hole1 |-> Part(Hundredths(660), Hundredths(20), 0, Hundredths(50)),
     hole2 |-> Part(Hundredths(660), Hundredths(20), 0, Hundredths(50)),
     deviation |-> [x |-> Hundredths(10), y |-> Hundredths(10)]]

Min(a, b) == IF a < b THEN a ELSE b
Max(a, b) == IF a > b THEN a ELSE b

\* v.toFixed(4): the number of 0.0001 nearest to v, a tie going to the larger
\* magnitude
ToFixed4(v) == IF v < 0 THEN -((-v + 1) \div 2) ELSE (v + 1) \div 2

\* NaN, what parseFloat gives for an emptied or unparsable field.  TLC
\* compares numbers with numbers only, so NaN is a number that no entry and
\* no computed length can have; every operation below that can meet it
\* tests for it first and treats it as IEEE arithmetic does (an operation on
\* NaN gives NaN, a comparison with NaN is false).
NaN == -(2^30)
IsNaN(v) == v = NaN

\* parseFloat(e.target.value) || 0, for the parseFloat result raw
ParseFloatOrZero(raw) == IF IsNaN(raw) THEN 0 ELSE raw

\* deviation.x**2 + deviation.y**2, the radicand of actualOffset
OffsetSquared(dev) ==
    IF IsNaN(dev.x) \/ IsNaN(dev.y) THEN NaN
    ELSE dev.x * dev.x + dev.y * dev.y

\* Math.sqrt(radicand)
MathSqrt(radicand) == IF IsNaN(radicand) THEN NaN ELSE Sqrt(radicand)

\* a plausible slip: >= in place of >
SqrtExceedsOrEquals(radicand, c) == c < 0 \/ radicand >= c * c

\* a plausible slip: the squares compared whatever the sign of c
SqrtExceedsSquares(radicand, c) == radicand > c * c

\* Math.sqrt(radicand) > c, decided without rounding the root
SqrtExceeds(radicand, c) ==
    ~IsNaN(radicand) /\ (c < 0 \/ radicand > c * c)

\* a plausible slip: both holes are checked against the limiting clearance
FloatingFailsLimiting(h1, h2, clearance1, clearance2) ==
    \/ h1.tpSpec > Min(clearance1, clearance2)
    \/ h2.tpSpec > Min(clearance1, clearance2)

\* a plausible slip: only the second hole is checked
FloatingFailsSecondHole(h1, h2, clearance1, clearance2) ==
    h2.tpSpec > clearance2

\* a plausible slip: both holes must exceed their clearance
FloatingFailsBoth(h1, h2, clearance1, clearance2) ==
    h1.tpSpec > clearance1 /\ h2.tpSpec > clearance2

\* hole1.tpSpec > clearance1 || hole2.tpSpec > clearance2
FloatingFails(h1, h2, clearance1, clearance2) ==
    h1.tpSpec > clearance1 \/ h2.tpSpec > clearance2

\* a plausible slip: a combined spec equal to the budget fails
FixedFailsAtBudget(h1, h2, totalBudget) ==
    h1.tpSpec + h2.tpSpec >= totalBudget

\* a plausible slip: a threaded hole whose MMC is below the pin's MMC
\* (h1MMC - totalBudget) fails the check as well
FixedFailsSmallHole2(h1, h2, totalBudget) ==
    \/ h1.tpSpec + h2.tpSpec > totalBudget
    \/ h2.nominal - h2.tolMinus < (h1.nominal - h1.tolMinus) - totalBudget

\* combinedSpec > totalBudget
FixedFails(h1, h2, totalBudget) ==
    h1.tpSpec + h2.tpSpec > totalBudget

\* a plausible slip: the simulation reads the mode's own clearance (the
\* variable clearance of the source) instead of hole1's
AnalysisModeClearance(m, p, h1, h2, dev, u) ==
    LET pinMMC == p.nominal + p.tolPlus
        h1MMC  == h1.nominal - h1.tolMinus
        h2MMC  == h2.nominal - h2.tolMinus
        actualOffset == MathSqrt(OffsetSquared(dev))
        clearance1 == h1MMC - pinMMC
        clearance2 == h2MMC - pinMMC
        limitingClearance == Min(clearance1, clearance2)
        totalBudget == h1MMC - pinMMC
        clearance == IF m = FLOATING THEN limitingClearance ELSE totalBudget
        radialClearance == clearance \div 2
    IN  [pinMMC |-> pinMMC,
         h1MMC  |-> h1MMC,
         maxAllowableTP |-> IF m = FLOATING THEN limitingClearance
                                            ELSE totalBudget \div 2,
         status |-> IF m = FLOATING
                    THEN (IF FloatingFails(h1, h2, clearance1, clearance2)
                          THEN "FAIL" ELSE "SAFE")
                    ELSE (IF FixedFails(h1, h2, totalBudget)
                          THEN "FAIL" ELSE "SAFE"),
         recommendation |->
             IF m = FLOATING
             THEN <<"Ideally, Position Tolerance should be <=",
                    ToFixed4(limitingClearance), u,
                    "Currently spec is", ToFixed4(Max(h1.tpSpec, h2.tpSpec)), u>>
             ELSE <<"For Fixed Fasteners, the total clearance is shared.",
                    "Max recommended TP per part is",
                    ToFixed4(totalBudget \div 2), u>>,
         actualTP |-> IF IsNaN(actualOffset) THEN NaN ELSE 2 * actualOffset,
         isSimulationInterference |->
             SqrtExceeds(OffsetSquared(dev), radialClearance),
         radialClearance |-> radialClearance,
         actualOffset |-> actualOffset]

\* the body of the useMemo: analysis for a form state
Analysis(m, p, h1, h2, dev, u) ==
    LET pinMMC == p.nominal + p.tolPlus
        h1MMC  == h1.nominal - h1.tolMinus
        h2MMC  == h2.nominal - h2.tolMinus
        actualOffset == MathSqrt(OffsetSquared(dev))
        clearance1 == h1MMC - pinMMC
        clearance2 == h2MMC - pinMMC
        limitingClearance == Min(clearance1, clearance2)
        totalBudget == h1MMC - pinMMC
        radialClearance == (h1MMC - pinMMC) \div 2
    IN  [pinMMC |-> pinMMC,
         h1MMC  |-> h1MMC,
         maxAllowableTP |-> IF m = FLOATING THEN limitingClearance
                                            ELSE totalBudget \div 2,
         status |-> IF m = FLOATING
                    THEN (IF FloatingFails(h1, h2, clearance1, clearance2)
                          THEN "FAIL" ELSE "SAFE")
                    ELSE (IF FixedFails(h1, h2, totalBudget)
                          THEN "FAIL" ELSE "SAFE"),
         recommendation |->
             IF m = FLOATING
             THEN <<"Ideally, Position Tolerance should be <=",
                    ToFixed4(limitingClearance), u,
                    "Currently spec is", ToFixed4(Max(h1.tpSpec, h2.tpSpec)), u>>
             ELSE <<"For Fixed Fasteners, the total clearance is shared.",
                    "Max recommended TP per part is",
                    ToFixed4(totalBudget \div 2), u>>,
         actualTP |-> IF IsNaN(actualOffset) THEN NaN ELSE 2 * actualOffset,
         isSimulationInterference |->
             SqrtExceeds(OffsetSquared(dev), radialClearance),
         radialClearance |-> radialClearance,
         actualOffset |-> actualOffset]

PartFields == {"nominal", "tolPlus", "tolMinus", "tpSpec"}

\* setPin(p => ({...p, [field]: val}))
updatePin(field, val) ==
    /\ pin' = [pin EXCEPT ![field] = val]
    /\ analysis' = Analysis(mode, pin', hole1, hole2, deviation, unit)
    /\ UNCHANGED <<unit, mode, hole1, hole2, deviation>>
    /\ UNCHANGED linVars

updateH1(field, val) ==
    /\ hole1' = [hole1 EXCEPT ![field] = val]
    /\ analysis' = Analysis(mode, pin, hole1', hole2, deviation, unit)
    /\ UNCHANGED <<unit, mode, pin, hole2, deviation>>
    /\ UNCHANGED linVars

updateH2(field, val) ==
    /\ hole2' = [hole2 EXCEPT ![field] = val]
    /\ analysis' = Analysis(mode, pin, hole1, hole2', deviation, unit)
    /\ UNCHANGED <<unit, mode, pin, hole1, deviation>>
    /\ UNCHANGED linVars

\* the FLOATING / FIXED buttons
setMode(m) ==
    /\ mode' = m
    /\ analysis' = Analysis(mode', pin, hole1, hole2, deviation, unit)
    /\ UNCHANGED <<unit, pin, hole1, hole2, deviation>>
    /\ UNCHANGED linVars

\* the X / Y deviation inputs: setDeviation({...deviation, [axis]: val})
setDeviation(axis, val) ==
    /\ deviation' = [deviation EXCEPT ![axis] = val]
    /\ analysis' = Analysis(mode, pin, hole1, hole2, deviation', unit)
    /\ UNCHANGED <<unit, mode, pin, hole1, hole2>>
    /\ UNCHANGED linVars

----------------------------------------------------------------------------
(* HoleFitCalculator: unit toggle, reset and the example scenarios *)

HoleScenarioIds == {"m6_float", "m8_fixed", "quarter_inch"}

HOLE_SCENARIOS(id) ==
    CASE id = "m6_float" ->
           [unit |-> "MM", mode |-> FLOATING,
            pin   |-> Part(Hundredths(600), 0, Hundredths(10), 0),
            hole1 |-> Part(Hundredths(660), Hundredths(20), 0, Hundredths(50)),
            hole2 |-> Part(Hundredths(660), Hundredths(20), 0, Hundredths(50))]
      [] id = "m8_fixed" ->
           [unit |-> "MM", mode |-> FIXED,
            pin   |-> Part(Hundredths(800), 0, Hundredths(15), 0),
            hole1 |-> Part(Hundredths(900), Hundredths(25), 0, Hundredths(40)),
            hole2 |-> Part(Hundredths(800), 0, 0, Hundredths(40))]
      [] id = "quarter_inch" ->
           [unit |-> "INCH", mode |-> FLOATING,
            pin   |-> Part(Thousandths(250), 0, Thousandths(5), 0),
            hole1 |-> Part(Thousandths(266), Thousandths(10), 0, Thousandths(15)),
            hole2 |-> Part(Thousandths(266), Thousandths(10), 0, Thousandths(15))]

\* num / den (den > 0) rounded to the nearest integer.  A quotient exactly
\* midway goes to the larger magnitude; the doubles of the source put such a
\* product a hair above or below the midpoint, so there toFixed may give
\* either neighbour (always the same one for the same value).
RoundHalfAway(num, den) ==
    IF num < 0 THEN -((2 * (-num) + den) \div (2 * den))
               ELSE (2 * num + den) \div (2 * den)

\* 10^-precision of the display unit, for the two precisions of cvt
Resolution(precision) == IF precision = 3 THEN Thousandths(1) ELSE 2

\* a plausible slip: the digits beyond the precision are cut off
ToFixedTruncated(num, den, precision) ==
    Resolution(precision)
      * (IF num < 0 THEN -((-num) \div (den * Resolution(precision)))
                    ELSE num \div (den * Resolution(precision)))

\* parseFloat((num / den).toFixed(precision))
ToFixed(num, den, precision) ==
    Resolution(precision) * RoundHalfAway(num, den * Resolution(precision))

\* a plausible slip: one precision for both units
cvtOnePrecision(val, newUnit) ==
    LET factor == IF newUnit = "MM" THEN <<127, 5>> ELSE <<5, 127>>
    IN  ToFixed(val * factor[1], factor[2], 3)

\* cvt of handleToggleUnit: factor is 25.4 = 127/5 or 1/25.4 = 5/127
cvt(val, newUnit) ==
    LET factor    == IF newUnit = "MM" THEN <<127, 5>> ELSE <<5, 127>>
        precision == IF newUnit = "MM" THEN 3 ELSE 4
    IN  IF IsNaN(val) THEN NaN
        ELSE ToFixed(val * factor[1], factor[2], precision)

cvtPart(p, newUnit) ==
    Part(cvt(p.nominal, newUnit), cvt(p.tolPlus, newUnit),
         cvt(p.tolMinus, newUnit), cvt(p.tpSpec, newUnit))

\* a plausible slip: the misalignment vector is left in the old unit
handleToggleUnitPartsOnly ==
    LET newUnit == IF unit = "MM" THEN "INCH" ELSE "MM"
    IN  /\ pin' = cvtPart(pin, newUnit)
        /\ hole1' = cvtPart(hole1, newUnit)
        /\ hole2' = cvtPart(hole2, newUnit)
        /\ UNCHANGED deviation
        /\ unit' = newUnit
        /\ analysis' = Analysis(mode, pin', hole1', hole2', deviation', unit')
        /\ UNCHANGED mode
        /\ UNCHANGED linVars

\* a plausible slip: unit is missing from the dependencies of the useMemo
handleToggleUnitStaleUnit ==
    LET newUnit == IF unit = "MM" THEN "INCH" ELSE "MM"
    IN  /\ pin' = cvtPart(pin, newUnit)
        /\ hole1' = cvtPart(hole1, newUnit)
        /\ hole2' = cvtPart(hole2, newUnit)
        /\ deviation' = [x |-> cvt(deviation.x, newUnit),
                         y |-> cvt(deviation.y, newUnit)]
        /\ unit' = newUnit
        /\ analysis' = Analysis(mode, pin', hole1', hole2', deviation', unit)
        /\ UNCHANGED mode
        /\ UNCHANGED linVars

handleToggleUnit ==
    LET newUnit == IF unit = "MM" THEN "INCH" ELSE "MM"
    IN  /\ pin' = cvtPart(pin, newUnit)
        /\ hole1' = cvtPart(hole1, newUnit)
        /\ hole2' = cvtPart(hole2, newUnit)
        /\ deviation' = [x |-> cvt(deviation.x, newUnit),
                         y |-> cvt(deviation.y, newUnit)]
        /\ unit' = newUnit
        /\ analysis' = Analysis(mode, pin', hole1', hole2', deviation', unit')
        /\ UNCHANGED mode
        /\ UNCHANGED linVars

\* handleReset of HoleFitCalculator
handleResetHoleFit ==
    /\ unit' = "MM"
    /\ mode' = DEFAULT_STATE.mode
    /\ pin' = DEFAULT_STATE.pin
    /\ hole1' = DEFAULT_STATE.hole1
    /\ hole2' = DEFAULT_STATE.hole2
    /\ deviation' = DEFAULT_STATE.deviation
    /\ analysis' = Analysis(mode', pin', hole1', hole2', deviation', unit')
    /\ UNCHANGED linVars

\* a plausible slip: the misalignment of the previous form is kept
handleLoadScenarioHoleFitKeepsDeviation(id) ==
    IF id \in HoleScenarioIds
    THEN LET scenario == HOLE_SCENARIOS(id)
         IN  /\ unit' = scenario.unit
             /\ mode' = scenario.mode
             /\ pin' = scenario.pin
             /\ hole1' = scenario.hole1
             /\ hole2' = scenario.hole2
             /\ UNCHANGED deviation
             /\ analysis' = Analysis(mode', pin', hole1', hole2', deviation', unit')
             /\ UNCHANGED linVars
    ELSE UNCHANGED vars

\* handleLoadScenario of HoleFitCalculator; an id that names no scenario
\* returns early
handleLoadScenarioHoleFit(id) ==
    IF id \in HoleScenarioIds
    THEN LET scenario == HOLE_SCENARIOS(id)
         IN  /\ unit' = scenario.unit
             /\ mode' = scenario.mode
             /\ pin' = scenario.pin
             /\ hole1' = scenario.hole1
             /\ hole2' = scenario.hole2
             /\ deviation' = [x |-> 0, y |-> 0]
             /\ analysis' = Analysis(mode', pin', hole1', hole2', deviation', unit')
             /\ UNCHANGED linVars
    ELSE UNCHANGED vars

\* the form as HoleFitCalculator mounts it
HoleInit ==
    /\ unit = "MM"
    /\ mode = DEFAULT_STATE.mode
    /\ pin = DEFAULT_STATE.pin
    /\ hole1 = DEFAULT_STATE.hole1
    /\ hole2 = DEFAULT_STATE.hole2
    /\ deviation = DEFAULT_STATE.deviation
    /\ analysis = Analysis(mode, pin, hole1, hole2, deviation, unit)

\* the dimension list as App mounts it
LinearInit ==
    /\ dimensions = INITIAL_DIMENSIONS
    /\ results = computeStackup(dimensions)
    /\ aiAnalysis = ClearedAnalysis
    /\ edits = 0
    /\ requests = 0

----------------------------------------------------------------------------
(* Spec: the linear tab of App from its initial state *)

Init == LinearInit /\ HoleInit

AddStep    == \E newId \in GeneratedIds : addDimension(newId)
UpdateStep == \E i \in Rows(dimensions), field \in Fields :
                \E value \in SessionInputs(field) :
                    /\ edits < MaxEdits
                    /\ edits' = edits + 1
                    /\ Entry(dimensions, i, field, value)
                    /\ updateDimension(dimensions[i].id, field, value)
RemoveStep == \E i \in Rows(dimensions) : removeDimension(dimensions[i].id)
ResetStep  == \E confirmed \in BOOLEAN : handleReset(confirmed)
LoadStep   == \E scenarioId \in ScenarioIds \cup {""} :
                handleLoadScenario(scenarioId, ScenarioDimIds)

Next == AddStep \/ UpdateStep \/ RemoveStep \/ ResetStep \/ LoadStep

Spec == Init /\ [][Next]_vars

----------------------------------------------------------------------------
(* SpecStackup: the engine on every dimension list of up to MaxLen         *)
(* dimensions over the form's inputs, edited field by field                *)

InputDims(id) ==
    {Dim(id, n, p, m, ty) : n \in NominalInputs, p \in ToleranceInputs,
                            m \in ToleranceInputs, ty \in DimensionType}

PositionIds == <<"1", "2", "3", "4", "5", "6">>

InputLists ==
    UNION {{l \in [1..n -> UNION {InputDims(PositionIds[i]) : i \in 1..n}] :
              \A i \in 1..n : l[i].id = PositionIds[i]} : n \in 0..MaxLen}

InitStackup ==
    /\ dimensions \in InputLists
    /\ results = computeStackup(dimensions)
    /\ aiAnalysis = ClearedAnalysis
    /\ edits = 0
    /\ requests = 0
    /\ HoleInit

EditStep == \E i \in Rows(dimensions), field \in Fields :
              \E value \in FieldInputs(field) :
                  /\ Entry(dimensions, i, field, value)
                  /\ updateDimension(dimensions[i].id, field, value)
                  /\ UNCHANGED edits

NextStackup == EditStep \/ RemoveStep

SpecStackup == InitStackup /\ [][NextStackup]_vars

----------------------------------------------------------------------------
(* SpecFit: the hole-fit engine on every form state over the inputs below, *)
(* edited field by field                                                   *)

PinInputs(field) ==
    CASE field = "nominal"  -> {Hundredths(600)}
      [] field = "tolPlus"  -> {0, Hundredths(10)}
      [] field = "tolMinus" -> {Hundredths(10)}
      [] OTHER              -> {0}

HoleInputs(field) ==
    CASE field = "nominal"  -> {Hundredths(590), Hundredths(660)}
      [] field = "tolPlus"  -> {Hundredths(20)}
      [] field = "tolMinus" -> {0, Hundredths(10)}
      [] OTHER              -> {Hundredths(-20), Hundredths(30),
                                Hundredths(50), Hundredths(60)}

DeviationInputs(axis) ==
    IF axis = "x" THEN {0, Hundredths(15), Hundredths(30)}
                  ELSE {0, Hundredths(40)}

PinParts ==
    {Part(n, p, m, t) : n \in PinInputs("nominal"), p \in PinInputs("tolPlus"),
                        m \in PinInputs("tolMinus"), t \in PinInputs("tpSpec")}

HoleParts ==
    {Part(n, p, m, t) : n \in HoleInputs("nominal"), p \in HoleInputs("tolPlus"),
                        m \in HoleInputs("tolMinus"), t \in HoleInputs("tpSpec")}

InitFit ==
    /\ LinearInit
    /\ unit = "MM"
    /\ mode \in AssemblyType
    /\ pin \in PinParts
    /\ hole1 \in HoleParts
    /\ hole2 \in HoleParts
    /\ deviation \in {[x |-> dx, y |-> dy] : dx \in DeviationInputs("x"),
                                            dy \in DeviationInputs("y")}
    /\ analysis = Analysis(mode, pin, hole1, hole2, deviation, unit)

PinStep  == \E field \in PartFields : \E val \in PinInputs(field) :
                updatePin(field, val)
H1Step   == \E field \in PartFields : \E val \in HoleInputs(field) :
                updateH1(field, val)
H2Step   == \E field \in PartFields : \E val \in HoleInputs(field) :
                updateH2(field, val)
ModeStep == \E m \in AssemblyType : setMode(m)
DeviationStep == \E axis \in {"x", "y"} : \E val \in DeviationInputs(axis) :
                setDeviation(axis, val)

NextFit == PinStep \/ H1Step \/ H2Step \/ ModeStep \/ DeviationStep

SpecFit == InitFit /\ [][NextFit]_vars

----------------------------------------------------------------------------
(* SpecHole: a session of the hole-fit form from its mount state: the      *)
(* unit toggle, reset, the example scenarios and entries in the fields     *)

\* the entries made during a session of the form: a position spec of 0.02
\* in each part, a misalignment of 0 or 0.05 on each axis
FormInputs(field) ==
    CASE field = "tpSpec" -> {Hundredths(2)}
      [] OTHER            -> {}

FormDeviationInputs == {0, Hundredths(5)}

ToggleStep    == handleToggleUnit
FormResetStep == handleResetHoleFit
FormLoadStep  == \E id \in HoleScenarioIds \cup {"default"} :
                    handleLoadScenarioHoleFit(id)
FormPinStep   == \E field \in PartFields : \E val \in FormInputs(field) :
                    updatePin(field, val)
FormH1Step    == \E field \in PartFields : \E val \in FormInputs(field) :
                    updateH1(field, val)
FormH2Step    == \E field \in PartFields : \E val \in FormInputs(field) :
                    updateH2(field, val)
FormDeviationStep == \E axis \in {"x", "y"} : \E val \in FormDeviationInputs :
                    setDeviation(axis, val)

NextHole == \/ ToggleStep \/ FormResetStep \/ FormLoadStep \/ ModeStep
            \/ FormPinStep \/ FormH1Step \/ FormH2Step \/ FormDeviationStep

SpecHole == Init /\ [][NextHole]_vars

----------------------------------------------------------------------------
(* SpecUnits: the unit toggle on every value of up to MaxThousandths       *)
(* thousandths of a millimeter, in a part field and in the misalignment    *)

InitUnits ==
    /\ LinearInit
    /\ unit = "MM"
    /\ mode = DEFAULT_STATE.mode
    /\ \E t \in -MaxThousandths..MaxThousandths :
          /\ pin = [DEFAULT_STATE.pin EXCEPT !.tolMinus = Thousandths(t)]
          /\ deviation = [DEFAULT_STATE.deviation EXCEPT !.x = Thousandths(t)]
    /\ hole1 = DEFAULT_STATE.hole1
    /\ hole2 = DEFAULT_STATE.hole2
    /\ analysis = Analysis(mode, pin, hole1, hole2, deviation, unit)

NextUnits == ToggleStep

SpecUnits == InitUnits /\ [][NextUnits]_vars

----------------------------------------------------------------------------
(* SpecVerdict: the unit toggle and the mode buttons on millimeter forms   *)
(* whose first hole is 6.50 with a lower tolerance of up to                *)
(* MaxThousandths thousandths and a position spec of 0.30 or 0.50, under a *)
(* misalignment of 0 or 0.25 along x                                       *)

VerdictSpecInputs == {Hundredths(30), Hundredths(50)}
VerdictDeviationInputs == {0, Hundredths(25)}

InitVerdict ==
    /\ LinearInit
    /\ unit = "MM"
    /\ mode \in AssemblyType
    /\ pin = DEFAULT_STATE.pin
    /\ \E t \in 0..MaxThousandths, spec \in VerdictSpecInputs :
          hole1 = [DEFAULT_STATE.hole1 EXCEPT !.nominal = Hundredths(650),
                                              !.tolMinus = Thousandths(t),
                                              !.tpSpec = spec]
    /\ hole2 = DEFAULT_STATE.hole2
    /\ \E dx \in VerdictDeviationInputs :
          deviation = [x |-> dx, y |-> 0]
    /\ analysis = Analysis(mode, pin, hole1, hole2, deviation, unit)

NextVerdict == ToggleStep \/ ModeStep

SpecVerdict == InitVerdict /\ [][NextVerdict]_vars

----------------------------------------------------------------------------
(* SpecEntry: a session of the hole-fit form in which fields are also      *)
(* emptied.  raw is what parseFloat makes of the text of the field: the    *)
(* number entered, or NaN for an emptied field.                            *)

EntryFields == {"tolMinus", "tpSpec"}
RawEntries(field) == FormInputs(field) \cup {NaN}
RawDeviationEntries == FormDeviationInputs \cup {NaN}

EntryPinStep == \E field \in EntryFields : \E raw \in RawEntries(field) :
                    updatePin(field, ParseFloatOrZero(raw))
EntryH1Step  == \E field \in EntryFields : \E raw \in RawEntries(field) :
                    updateH1(field, ParseFloatOrZero(raw))
EntryH2Step  == \E field \in EntryFields : \E raw \in RawEntries(field) :
                    updateH2(field, ParseFloatOrZero(raw))
EntryDeviationStep == \E axis \in {"x", "y"} : \E raw \in RawDeviationEntries :
                    setDeviation(axis, raw)

NextEntry == \/ EntryPinStep \/ EntryH1Step \/ EntryH2Step
             \/ EntryDeviationStep \/ ToggleStep \/ FormResetStep \/ ModeStep

SpecEntry == Init /\ [][NextEntry]_vars

----------------------------------------------------------------------------
(* SpecDiagram: the loop diagram on every dimension list of up to MaxLen   *)
(* dimensions with a nominal of -0.20, -0.10 or 0.10, edited by nominal    *)
(* and direction                                                           *)

DiagramNominals == {Hundredths(-20), Hundredths(-10), Hundredths(10)}
DiagramTolerances == {0, Hundredths(20)}

DiagramDims(id) ==
    {Dim(id, n, p, p, ty) : n \in DiagramNominals, p \in DiagramTolerances,
                            ty \in DimensionType}

DiagramLists ==
    UNION {{l \in [1..n -> UNION {DiagramDims(PositionIds[i]) : i \in 1..n}] :
              \A i \in 1..n : l[i].id = PositionIds[i]} : n \in 0..MaxLen}

InitDiagram ==
    /\ dimensions \in DiagramLists
    /\ results = computeStackup(dimensions)
    /\ aiAnalysis = ClearedAnalysis
    /\ edits = 0
    /\ requests = 0
    /\ HoleInit

NominalStep == \E i \in Rows(dimensions), value \in DiagramNominals :
                  /\ updateDimension(dimensions[i].id, "nominal", value)
                  /\ UNCHANGED edits
TypeStep == \E i \in Rows(dimensions), value \in DimensionType :
                  /\ Entry(dimensions, i, "type", value)
                  /\ updateDimension(dimensions[i].id, "type", value)
                  /\ UNCHANGED edits

NextDiagram == NominalStep \/ TypeStep \/ RemoveStep

SpecDiagram == InitDiagram /\ [][NextDiagram]_vars

----------------------------------------------------------------------------
(* SpecAI: AI audits in flight while the dimension list is changed *)

RunAIStep     == handleRunAI
AISettledStep == \E hasKey \in BOOLEAN, response \in Responses :
                    handleRunAISettled(hasKey, response)

NextAI == RunAIStep \/ AISettledStep \/ RemoveStep \/ ResetStep \/ LoadStep

SpecAI == Init /\ [][NextAI]_vars

----------------------------------------------------------------------------
(* SpecApp: both tabs of App.  The LINEAR tab is shown while               *)
(* HoleFitCalculator is unmounted, and a mount starts from DEFAULT_STATE,  *)
(* so the handlers of the dimension list run with the form at its mount    *)
(* state.  The two components share no state; the sessions explored open   *)
(* the HOLE tab from the dimension list as App mounted it.                 *)

NextApp == \/ HoleInit /\ Next
           \/ LinearInit /\ NextHole

SpecApp == Init /\ [][NextApp]_vars

----------------------------------------------------------------------------
(* Reference definitions used by the properties *)

RECURSIVE Total(_, _)
Total(f, S) ==
    IF S = {} THEN 0
    ELSE LET i == CHOOSE j \in S : TRUE
         IN  f[i] + Total(f, S \ {i})

Positions(dims) == 1..Len(dims)
Of(dims, ty) == {i \in Positions(dims) : dims[i].type = ty}

NominalOf(dims) == [i \in Positions(dims) |-> dims[i].nominal]
UpperOf(dims)   == [i \in Positions(dims) |-> dims[i].nominal + dims[i].tolerancePlus]
LowerOf(dims)   == [i \in Positions(dims) |-> dims[i].nominal - dims[i].toleranceMinus]
HalfBandSquaredOf(dims) ==
    [i \in Positions(dims) |->
        ((dims[i].tolerancePlus + dims[i].toleranceMinus) \div 2)
      * ((dims[i].tolerancePlus + dims[i].toleranceMinus) \div 2)]

NonNegativeTolerances(dims) ==
    \A i \in Positions(dims) :
        dims[i].tolerancePlus >= 0 /\ dims[i].toleranceMinus >= 0

WorstCaseWidth(r) == r.worstCaseMax - r.worstCaseMin
RssHalfWidth(r)   == r.rssMax - r.nominalGap

Permute(dims, pi) == [i \in Positions(dims) |-> dims[pi[i]]]

\* every dimension's direction reversed: the same tolerances, the gap negated
Reversed(dims) ==
    [i \in Positions(dims) |->
        [dims[i] EXCEPT !.type = IF @ = INCREASING THEN DECREASING ELSE INCREASING]]

Percent(n) == n * PScale

----------------------------------------------------------------------------
(* C1 *)

\* C1 as stated: for every dimension list, whatever the signs of its
\* tolerances, worstCaseMin <= nominalGap <= worstCaseMax.
C1_WorstCaseBracketsNominalAnySign ==
    /\ results.worstCaseMin <= results.nominalGap
    /\ results.nominalGap <= results.worstCaseMax

\* C1 amended: for every dimension list whose tolerancePlus and
\* toleranceMinus are all non-negative (any length, any sign of nominal, any
\* mix of directions), worstCaseMin <= nominalGap <= worstCaseMax.
C1_WorstCaseBracketsNominal ==
    NonNegativeTolerances(dimensions) =>
        /\ results.worstCaseMin <= results.nominalGap
        /\ results.nominalGap <= results.worstCaseMax

\* a list of both directions with a negative nominal and positive tolerances,
\* where both inequalities are strict
C1_Witness ==
    /\ NonNegativeTolerances(dimensions)
    /\ Of(dimensions, INCREASING) # {} /\ Of(dimensions, DECREASING) # {}
    /\ \E i \in Positions(dimensions) : dimensions[i].nominal < 0
    /\ results.worstCaseMin < results.nominalGap
    /\ results.nominalGap < results.worstCaseMax

----------------------------------------------------------------------------
(* C2 *)

\* C2: for every dimension list, negative tolerances included, the RSS band
\* is nominalGap -/+ rssTolerance with rssTolerance >= 0 the square root of
\* the sum of the squared half-bands, so rssMin <= nominalGap <= rssMax and
\* rssMax - nominalGap = nominalGap - rssMin.
C2_RssBandSymmetric ==
    LET h  == RssHalfWidth(results)
        ss == Total(HalfBandSquaredOf(dimensions), Positions(dimensions))
    IN  /\ h >= 0
        /\ h * h <= ss /\ ss < (h + 1) * (h + 1)
        /\ results.rssMin = results.nominalGap - h
        /\ results.rssMin <= results.nominalGap
        /\ results.nominalGap <= results.rssMax
        /\ results.rssMax - results.nominalGap = results.nominalGap - results.rssMin

\* a list with a negative tolerance and a band of positive width
C2_Witness ==
    /\ \E i \in Positions(dimensions) : dimensions[i].tolerancePlus < 0
    /\ \E i \in Positions(dimensions) : dimensions[i].toleranceMinus > 0
    /\ results.rssMin < results.nominalGap
    /\ results.nominalGap < results.rssMax

----------------------------------------------------------------------------
(* C3 *)

\* the step replaces tolerancePlus or toleranceMinus of dimension i by a
\* larger value and changes nothing else
RaisesTolerance(i) ==
    /\ Len(dimensions') = Len(dimensions)
    /\ i \in Positions(dimensions)
    /\ \A j \in Positions(dimensions) : j # i => dimensions'[j] = dimensions[j]
    /\ \/ /\ dimensions'[i].tolerancePlus > dimensions[i].tolerancePlus
          /\ dimensions'[i] = [dimensions[i] EXCEPT
                                  !.tolerancePlus = dimensions'[i].tolerancePlus]
       \/ /\ dimensions'[i].toleranceMinus > dimensions[i].toleranceMinus
          /\ dimensions'[i] = [dimensions[i] EXCEPT
                                  !.toleranceMinus = dimensions'[i].toleranceMinus]

\* C3 as stated: raising one tolerance of one dimension never decreases
\* worstCaseMax - worstCaseMin and never decreases rssTolerance.
C3_MonotoneAnySign ==
    [][\A i \in Positions(dimensions) :
          RaisesTolerance(i) =>
              /\ WorstCaseWidth(results') >= WorstCaseWidth(results)
              /\ RssHalfWidth(results') >= RssHalfWidth(results)]_vars

\* C3 amended: raising one tolerance of one dimension never decreases
\* worstCaseMax - worstCaseMin, and never decreases rssTolerance when that
\* dimension's tolerancePlus + toleranceMinus was non-negative before.
C3_Monotone ==
    [][\A i \in Positions(dimensions) :
          RaisesTolerance(i) =>
              /\ WorstCaseWidth(results') >= WorstCaseWidth(results)
              /\ (dimensions[i].tolerancePlus + dimensions[i].toleranceMinus >= 0
                    => RssHalfWidth(results') >= RssHalfWidth(results))]_vars

\* a list in which a tolerance stands at the largest entry beside a smaller
\* one of non-negative sum: the result of a raise, with a band of positive width
C3_Witness ==
    /\ \E i \in Positions(dimensions) :
          /\ dimensions[i].tolerancePlus = Hundredths(20)
          /\ dimensions[i].toleranceMinus = 0
    /\ Len(dimensions) >= 2
    /\ RssHalfWidth(results) > 0
    /\ WorstCaseWidth(results) > 0

----------------------------------------------------------------------------
(* C4 *)

\* C4 as stated: when the combined tolerance is zero the probability is the
\* normal tail of z = (0 - nominalGap) / 0.001, not the literal 0; a negative
\* nominalGap reports more than 50 percent.
C4_ZeroToleranceProbabilityComputed ==
    RssHalfWidth(results) = 0 =>
        /\ results.interferenceProb = NormalTail(ZScore(results.nominalGap, 0))
        /\ (results.nominalGap < 0 => results.interferenceProb > Percent(50))

----------------------------------------------------------------------------
(* C5 *)

\* C5: for the empty dimension list, reached by removing every dimension,
\* nominalGap = 0, worstCaseMin = worstCaseMax = 0, rssMin = rssMax = 0 and
\* the contributor count is 0.
C5_EmptyListIsZero ==
    dimensions = << >> =>
        /\ results.nominalGap = 0
        /\ results.worstCaseMin = 0 /\ results.worstCaseMax = 0
        /\ results.rssMin = 0 /\ results.rssMax = 0
        /\ results.contributors = 0

\* the list has been emptied (App starts with four dimensions, and only
\* removeDimension shortens a list)
C5_Witness == dimensions = << >> /\ results.contributors = 0

----------------------------------------------------------------------------
(* C6 *)

\* C6: nominalGap, worstCaseMax, worstCaseMin and the contributor count
\* equal their reference sums over the increasing and the decreasing
\* dimensions, and no reordering of the list changes any of them.
C6_MatchesReference ==
    LET inc == Of(dimensions, INCREASING)
        dec == Of(dimensions, DECREASING)
    IN  /\ results.nominalGap =
               Total(NominalOf(dimensions), inc) - Total(NominalOf(dimensions), dec)
        /\ results.worstCaseMax =
               Total(UpperOf(dimensions), inc) - Total(LowerOf(dimensions), dec)
        /\ results.worstCaseMin =
               Total(LowerOf(dimensions), inc) - Total(UpperOf(dimensions), dec)
        /\ results.contributors = Len(dimensions)
        /\ \A pi \in Permutations(Positions(dimensions)) :
               LET r == computeStackup(Permute(dimensions, pi))
               IN  /\ r.nominalGap = results.nominalGap
                   /\ r.worstCaseMax = results.worstCaseMax
                   /\ r.worstCaseMin = results.worstCaseMin
                   /\ r.contributors = results.contributors

\* two different dimensions of opposite directions with unequal tolerances
C6_Witness ==
    /\ Len(dimensions) >= 2
    /\ dimensions[1].type = INCREASING /\ dimensions[2].type = DECREASING
    /\ dimensions[1].nominal # dimensions[2].nominal
    /\ dimensions[1].tolerancePlus # dimensions[1].toleranceMinus
    /\ dimensions[2].tolerancePlus > 0
    /\ results.worstCaseMin < results.worstCaseMax

----------------------------------------------------------------------------
(* C7 *)

----------------------------------------------------------------------------
(* C8 *)

\* C8: for the default four-dimension stack, which Reset restores,
\* nominalGap = 0.900, worstCaseMax = 1.350, worstCaseMin = 0.250, the sum
\* of squared half-bands is 0.0925, rssTolerance = 0.3041, rssMin = 0.5959
\* and rssMax = 1.2041 (four decimals).
C8_DefaultStack ==
    dimensions = INITIAL_DIMENSIONS =>
        /\ results.nominalGap = Thousandths(900)
        /\ results.worstCaseMax = Thousandths(1350)
        /\ results.worstCaseMin = Thousandths(250)
        /\ Total(HalfBandSquaredOf(dimensions), Positions(dimensions))
             = 925 * 200 * 200
        /\ RssHalfWidth(results) \div 2 = 3041
        /\ results.rssMin \div 2 = 5959
        /\ results.rssMax \div 2 = 12041
        /\ results.contributors = 4

\* the default stack is on screen again after the session's edit: an edit of
\* the default stack always changes it, so a confirmed Reset has followed
C8_Witness ==
    /\ dimensions = INITIAL_DIMENSIONS
    /\ edits = MaxEdits
    /\ aiAnalysis = ClearedAnalysis

----------------------------------------------------------------------------
(* C9, C10 *)

PinMMC      == pin.nominal + pin.tolPlus
HoleMMC(h)  == h.nominal - h.tolMinus
Clearance(h) == HoleMMC(h) - PinMMC

\* C9: in FLOATING mode maxAllowablePositionTolerance is the smaller of the
\* two clearances c1, c2, and status is FAIL exactly when hole1.tpSpec > c1
\* or hole2.tpSpec > c2, otherwise SAFE.
C9_FloatingBudget ==
    mode = FLOATING =>
        /\ analysis.maxAllowableTP = Min(Clearance(hole1), Clearance(hole2))
        /\ analysis.status \in {"SAFE", "FAIL"}
        /\ analysis.status = "FAIL" <=>
              \/ hole1.tpSpec > Clearance(hole1)
              \/ hole2.tpSpec > Clearance(hole2)

\* hole1's spec exceeds the limiting clearance but not hole1's own, and the
\* status is SAFE
C9_Witness ==
    /\ mode = FLOATING
    /\ Clearance(hole2) < Clearance(hole1)
    /\ hole1.tpSpec > Clearance(hole2)
    /\ hole1.tpSpec <= Clearance(hole1)
    /\ hole2.tpSpec <= Clearance(hole2)
    /\ analysis.status = "SAFE"

\* C10: in FIXED mode maxAllowablePositionTolerance is half of
\* totalBudget = holeMMC(hole1) - pinMMC, and status is FAIL exactly when
\* hole1.tpSpec + hole2.tpSpec > totalBudget; a combined spec equal to the
\* budget is SAFE.
C10_FixedBudget ==
    mode = FIXED =>
        /\ 2 * analysis.maxAllowableTP = Clearance(hole1)
        /\ analysis.status \in {"SAFE", "FAIL"}
        /\ analysis.status = "FAIL" <=>
              hole1.tpSpec + hole2.tpSpec > Clearance(hole1)

\* the combined spec equals the budget and the status is SAFE
C10_Witness ==
    /\ mode = FIXED
    /\ Clearance(hole1) > 0
    /\ hole1.tpSpec + hole2.tpSpec = Clearance(hole1)
    /\ analysis.status = "SAFE"

----------------------------------------------------------------------------
(* C11 *)

\* the outputs of an analysis that C11 names: status, the allowable position
\* tolerance, the recommendation and the simulation
BudgetOutputs(a) ==
    <<a.status, a.maxAllowableTP, a.recommendation, a.actualTP,
      a.actualOffset, a.radialClearance, a.isSimulationInterference>>

\* C11: in FIXED mode two inputs that differ only in hole2.nominal,
\* hole2.tolPlus or hole2.tolMinus give the same status, maximum allowable
\* position tolerance, recommendation and simulation outputs, also when
\* hole2's MMC is below the pin's MMC.
C11_FixedIgnoresHole2Size ==
    mode = FIXED =>
        \A h \in HoleParts :
            h.tpSpec = hole2.tpSpec =>
                BudgetOutputs(Analysis(FIXED, pin, hole1, h, deviation, unit))
                    = BudgetOutputs(analysis)

\* FIXED mode with hole2's MMC below the pin's MMC, reported SAFE
C11_Witness ==
    /\ mode = FIXED
    /\ HoleMMC(hole2) < PinMMC
    /\ HoleMMC(hole1) > PinMMC
    /\ analysis.status = "SAFE"

----------------------------------------------------------------------------
(* C12 *)

SimulationOutputs(a) ==
    <<a.actualOffset, a.actualTP, a.radialClearance, a.isSimulationInterference>>

\* C12: actualOffset is the square root of x^2 + y^2 (to the resolution),
\* actualTP is twice that, radialClearance is half of holeMMC(hole1) - pinMMC
\* and the interference flag says whether the offset exceeds it; none of the
\* four changes with the mode, with hole2 or with any position spec.
C12_SimulationIndependent ==
    LET r  == analysis.actualOffset
        rc == analysis.radialClearance
    IN  /\ r >= 0
        /\ r * r <= OffsetSquared(deviation)
        /\ OffsetSquared(deviation) < (r + 1) * (r + 1)
        /\ analysis.actualTP = 2 * r
        /\ 2 * rc = Clearance(hole1)
        /\ analysis.isSimulationInterference
             = (rc < 0 \/ OffsetSquared(deviation) > rc * rc)
        /\ \A m \in AssemblyType, h \in HoleParts :
             \A t \in HoleInputs("tpSpec") :
               SimulationOutputs(Analysis(m, [pin EXCEPT !.tpSpec = t],
                                          [hole1 EXCEPT !.tpSpec = t],
                                          h, deviation, unit))
                   = SimulationOutputs(analysis)

\* FLOATING mode, hole2 the tighter hole: the offset exceeds half of hole2's
\* clearance but not half of hole1's, and no interference is simulated
C12_Witness ==
    /\ mode = FLOATING
    /\ Clearance(hole2) >= 0
    /\ Clearance(hole2) < Clearance(hole1)
    /\ 4 * OffsetSquared(deviation) > Clearance(hole2) * Clearance(hole2)
    /\ 4 * OffsetSquared(deviation) <= Clearance(hole1) * Clearance(hole1)
    /\ ~analysis.isSimulationInterference

----------------------------------------------------------------------------
(* C13 *)

\* C13: an offset exactly equal to radialClearance is not an interference;
\* for radialClearance >= 0 the flag is set exactly when
\* x^2 + y^2 > radialClearance^2.
C13_BoundaryIsClear ==
    LET rc == analysis.radialClearance
    IN  rc >= 0 =>
          /\ (OffsetSquared(deviation) = rc * rc
                => ~analysis.isSimulationInterference)
          /\ (analysis.isSimulationInterference
                <=> OffsetSquared(deviation) > rc * rc)

\* a non-zero offset equal to a positive radialClearance, no interference
C13_Witness ==
    /\ analysis.radialClearance > 0
    /\ analysis.actualOffset = analysis.radialClearance
    /\ OffsetSquared(deviation)
         = analysis.radialClearance * analysis.radialClearance
    /\ ~analysis.isSimulationInterference

----------------------------------------------------------------------------
(* C14 *)

\* C14: with non-negative position specs, holeMMC(hole1) - pinMMC < 0 gives
\* status FAIL and a simulated interference, in both modes and for every
\* misalignment vector, the zero vector included.
C14_NegativeClearanceFails ==
    (/\ Clearance(hole1) < 0
     /\ hole1.tpSpec >= 0 /\ hole2.tpSpec >= 0) =>
        /\ analysis.status = "FAIL"
        /\ analysis.isSimulationInterference

\* FIXED mode, a negative clearance and no misalignment: FAIL and interference
C14_Witness ==
    /\ mode = FIXED
    /\ Clearance(hole1) < 0
    /\ hole1.tpSpec >= 0 /\ hole2.tpSpec >= 0
    /\ deviation = [x |-> 0, y |-> 0]
    /\ analysis.status = "FAIL"
    /\ analysis.isSimulationInterference

----------------------------------------------------------------------------
(* C15 *)

\* C15: loading a built-in hole scenario sets unit, mode, pin, hole1 and
\* hole2 to the scenario's values and the deviation to (0, 0); the analysis
\* is then SAFE without simulated interference, with pinMMC 6.00, hole1MMC
\* 6.60 and maximum allowable position tolerance 0.60 for M6 floating, and
\* pinMMC 8.00, hole1MMC 9.00, total budget 1.00 and combined spec 0.80 for
\* M8 fixed.
C15_LoadScenario ==
    [][\A id \in HoleScenarioIds :
          handleLoadScenarioHoleFit(id) =>
              /\ unit' = HOLE_SCENARIOS(id).unit
              /\ mode' = HOLE_SCENARIOS(id).mode
              /\ pin' = HOLE_SCENARIOS(id).pin
              /\ hole1' = HOLE_SCENARIOS(id).hole1
              /\ hole2' = HOLE_SCENARIOS(id).hole2
              /\ deviation' = [x |-> 0, y |-> 0]
              /\ analysis'.status = "SAFE"
              /\ ~analysis'.isSimulationInterference
              /\ (id = "m6_float" =>
                    /\ mode' = FLOATING
                    /\ analysis'.pinMMC = Hundredths(600)
                    /\ analysis'.h1MMC = Hundredths(660)
                    /\ analysis'.maxAllowableTP = Hundredths(60))
              /\ (id = "m8_fixed" =>
                    /\ mode' = FIXED
                    /\ analysis'.pinMMC = Hundredths(800)
                    /\ analysis'.h1MMC = Hundredths(900)
                    /\ 2 * analysis'.maxAllowableTP = Hundredths(100)
                    /\ hole1'.tpSpec + hole2'.tpSpec = Hundredths(80))
              /\ (id = "quarter_inch" => unit' = "INCH" /\ mode' = FLOATING)]_vars

\* the M8 scenario is on the form, which mounts with the M6 values in
\* FLOATING mode and a misalignment of (0.1, 0.1)
C15_Witness ==
    /\ unit = "MM" /\ mode = FIXED
    /\ pin.nominal = Hundredths(800) /\ hole1.nominal = Hundredths(900)
    /\ hole2.nominal = Hundredths(800)
    /\ deviation = [x |-> 0, y |-> 0]
    /\ analysis.status = "SAFE"

----------------------------------------------------------------------------
(* C16 *)

\* w is v times 25.4 (newUnit MM) or v / 25.4 (newUnit INCH) to within half
\* of the last decimal kept: 3 decimals for MM, 4 for INCH
IsConverted(v, w, newUnit) ==
    IF newUnit = "MM"
    THEN w % Thousandths(1) = 0 /\ Abs(5 * w - 127 * v) <= 5 * (Thousandths(1) \div 2)
    ELSE w % 2 = 0 /\ Abs(127 * w - 5 * v) <= 127

OtherUnit(u) == IF u = "MM" THEN "INCH" ELSE "MM"

\* C16: a unit toggle flips the unit (so that two toggles restore it), keeps
\* the mode, and replaces every numeric field of pin, hole1 and hole2 and
\* both components of the deviation by the value times 1/25.4 rounded to 4
\* decimals (to INCH) or times 25.4 rounded to 3 decimals (to MM).
C16_ToggleConverts ==
    [][handleToggleUnit =>
          /\ unit' = OtherUnit(unit) /\ OtherUnit(unit') = unit
          /\ unit' # unit
          /\ mode' = mode
          /\ \A f \in PartFields :
                /\ IsConverted(pin[f], pin'[f], unit')
                /\ IsConverted(hole1[f], hole1'[f], unit')
                /\ IsConverted(hole2[f], hole2'[f], unit')
          /\ IsConverted(deviation.x, deviation'.x, unit')
          /\ IsConverted(deviation.y, deviation'.y, unit')]_vars

\* the default form after one toggle: 6.00 mm is 0.2362 in, the misalignment
\* of 0.1 mm is 0.0039 in
C16_Witness ==
    /\ unit = "INCH"
    /\ pin.nominal = 2 * 2362
    /\ hole1.nominal = 2 * 2598
    /\ deviation = [x |-> 2 * 39, y |-> 2 * 39]

----------------------------------------------------------------------------
(* C17, C18 *)

\* the numbers on the form
FormValues ==
    {pin[f] : f \in PartFields} \cup {hole1[f] : f \in PartFields}
      \cup {hole2[f] : f \in PartFields} \cup {deviation.x, deviation.y}

\* a millimeter value after MM -> INCH -> MM
RoundTrip(v) == cvt(cvt(v, "INCH"), "MM")

\* C17: every millimeter value of at most 3 decimals comes back from
\* MM -> INCH -> MM within 0.001 mm of itself, and some values do not come
\* back as themselves.
C17_RoundTripBounded ==
    /\ unit = "MM" =>
          \A v \in FormValues :
              /\ v % Thousandths(1) = 0
              /\ Abs(RoundTrip(v) - v) <= Thousandths(1)
    /\ \E t \in -MaxThousandths..MaxThousandths :
          RoundTrip(Thousandths(t)) # Thousandths(t)

\* the default form after two toggles: 6.60 mm has come back as 6.599 mm,
\* 0.2 mm as 0.201 mm
C17_Witness ==
    /\ unit = "MM"
    /\ hole1.nominal = Thousandths(6599)
    /\ hole1.tolPlus = Thousandths(201)
    /\ pin.nominal = Thousandths(5999)

\* C18 as stated: there are values, on the form or anywhere in the range,
\* which a second MM -> INCH -> MM round trip changes again, so that the
\* distance from the original keeps growing.
C18_DriftAccumulates ==
    \E v \in FormValues
               \cup (-Thousandths(MaxThousandths)..Thousandths(MaxThousandths)) :
        RoundTrip(RoundTrip(v)) # RoundTrip(v)

\* C18 amended: repeated toggling does not accumulate drift.  A 4-decimal
\* inch value is reproduced exactly by INCH -> MM -> INCH, so every value a
\* toggle produces on the form is reproduced by each further round trip:
\* only the first MM -> INCH -> MM round trip can move a value, and the
\* distance from the original stays what that first round trip made it.
C18_DriftSettles ==
    [][handleToggleUnit =>
          /\ \A f \in PartFields :
                /\ cvt(cvt(pin'[f], unit), unit') = pin'[f]
                /\ cvt(cvt(hole1'[f], unit), unit') = hole1'[f]
                /\ cvt(cvt(hole2'[f], unit), unit') = hole2'[f]
          /\ cvt(cvt(deviation'.x, unit), unit') = deviation'.x
          /\ cvt(cvt(deviation'.y, unit), unit') = deviation'.y
          /\ (unit = "MM" =>
                \A v \in FormValues :
                    Abs(RoundTrip(RoundTrip(v)) - v) = Abs(RoundTrip(v) - v))]_vars

\* the form is in INCH after a round trip has moved the misalignment of
\* 0.1 mm to 0.099 mm; 0.0039 in is reproduced by INCH -> MM -> INCH
C18_Witness ==
    /\ unit = "INCH"
    /\ deviation.y = 2 * 39
    /\ cvt(deviation.y, "MM") = Thousandths(99)
    /\ cvt(cvt(deviation.y, "MM"), "INCH") = deviation.y
    /\ hole1.nominal = 2 * 2598

----------------------------------------------------------------------------
(* C19 *)

----------------------------------------------------------------------------
(* C20 *)

\* C20: analyzeStackupWithGemini resolves to a fixed string when the API key
\* is missing or the generation call throws, so handleRunAI never reaches
\* its catch branch (error stays null): every settled audit leaves
\* isLoading = false, shows the analysis or one of the fixed strings, and
\* changes neither the dimension list nor the stack-up results.
C20_FailureNeverRaises ==
    /\ [](aiAnalysis.error = "null")
    /\ [][requests' < requests =>
            /\ ~aiAnalysis'.isLoading
            /\ aiAnalysis'.error = "null"
            /\ aiAnalysis'.text \in
                 {MissingKeyText, FailedText, NoAnalysisText, "analysis"}
            /\ dimensions' = dimensions
            /\ results' = results]_vars

\* a failed audit has settled: its fixed string is shown, nothing is loading
C20_Witness ==
    /\ aiAnalysis.text = FailedText
    /\ ~aiAnalysis.isLoading
    /\ aiAnalysis.error = "null"
    /\ requests = 0

----------------------------------------------------------------------------
(* C21 *)

\* C21: the exported formulas of the data rows (sign, effective nominal,
\* worst-case maximum part, worst-case minimum part), summed over the rows
\* by the summary formulas, give the engine's nominalGap, worstCaseMax and
\* worstCaseMin for the dimension list on screen.
C21_ExportMatchesEngine ==
    LET sheet == generateExcelXML(dimensions)
    IN  /\ sheet.nominalGap = results.nominalGap
        /\ sheet.worstCaseMax = results.worstCaseMax
        /\ sheet.worstCaseMin = results.worstCaseMin

\* a list with a decreasing dimension of unequal tolerances and an
\* increasing one, the worst-case band being wider than a point
C21_Witness ==
    /\ \E i \in Positions(dimensions) :
           /\ dimensions[i].type = DECREASING
           /\ dimensions[i].tolerancePlus # dimensions[i].toleranceMinus
    /\ \E i \in Positions(dimensions) : dimensions[i].type = INCREASING
    /\ generateExcelXML(dimensions).worstCaseMax > generateExcelXML(dimensions).worstCaseMin

----------------------------------------------------------------------------
(* C22 *)

\* C22: the value of the exported "RSS Range (3 Sigma)" formula, labelled
\* as a plus-minus value, equals the half-width of the RSS band on screen,
\* rssMax - nominalGap.
C22_ExportedRssRangeIsHalfWidth ==
    generateExcelXML(dimensions).rssRange = RssHalfWidth(results)

----------------------------------------------------------------------------
(* C23 *)

\* C23: Reset and Load Example clear the AI analysis (text empty, isLoading
\* false, error null), and a cleared analysis stays cleared until a new
\* audit is started: no step other than the start of an audit changes it,
\* so the response to an audit requested before the reset is never shown
\* for the new dimension list.
C23_ClearedUntilNewAudit ==
    /\ [][(handleReset(TRUE) \/ \E id \in ScenarioIds :
                                   handleLoadScenario(id, ScenarioDimIds))
            => aiAnalysis' = ClearedAnalysis]_vars
    /\ [][(aiAnalysis = ClearedAnalysis /\ requests' <= requests)
            => aiAnalysis' = ClearedAnalysis]_vars

----------------------------------------------------------------------------
(* C24 *)

\* C24: at most one AI audit request is in flight at any time, and
\* isLoading is true whenever a request is outstanding (so the AI Audit
\* button, disabled while isLoading, cannot start a second one).
C24_OneAuditInFlight ==
    /\ requests <= 1
    /\ requests > 0 => aiAnalysis.isLoading

----------------------------------------------------------------------------
(* C25 *)

\* C25 as stated: for every dimension list with non-negative tolerances the
\* RSS band lies inside the worst-case band, worstCaseMin <= rssMin and
\* rssMax <= worstCaseMax.
C25_RssInsideWorstCase ==
    NonNegativeTolerances(dimensions) =>
        /\ results.worstCaseMin <= results.rssMin
        /\ results.rssMax <= results.worstCaseMax

\* every dimension has the same tolerance on both sides
SymmetricTolerances(dims) ==
    \A i \in Positions(dims) : dims[i].tolerancePlus = dims[i].toleranceMinus

\* C25 amended: for every dimension list with non-negative tolerances the
\* RSS band is no wider than the worst-case band, and it lies inside the
\* worst-case band when every dimension has tolerancePlus = toleranceMinus;
\* the banner reports "Assembly Safe" only when worstCaseMin and rssMin are
\* both non-negative, and a statistical risk only when rssMin is negative
\* while worstCaseMin is not.
C25_RssNoWiderThanWorstCase ==
    NonNegativeTolerances(dimensions) =>
        /\ 2 * RssHalfWidth(results) <= WorstCaseWidth(results)
        /\ SymmetricTolerances(dimensions) =>
              /\ results.worstCaseMin <= results.rssMin
              /\ results.rssMax <= results.worstCaseMax
        /\ renderStatus(results) = "Assembly Safe (Clearance Guaranteed)"
              => results.worstCaseMin >= 0 /\ results.rssMin >= 0
        /\ renderStatus(results) = "Statistical Interference Risk"
              => results.worstCaseMin >= 0 /\ results.rssMin < 0

\* two dimensions with equal positive tolerances on both sides: the RSS band
\* is strictly inside the worst-case band
C25_Witness ==
    /\ Len(dimensions) = 2
    /\ NonNegativeTolerances(dimensions)
    /\ SymmetricTolerances(dimensions)
    /\ \A i \in Positions(dimensions) : dimensions[i].tolerancePlus > 0
    /\ results.worstCaseMin < results.rssMin
    /\ results.rssMax < results.worstCaseMax

----------------------------------------------------------------------------
(* C26 *)

\* the true-position diameter 2 * sqrt(x^2 + y^2) of the simulated
\* deviation does not exceed a declared position spec
TruePositionWithin(dev, tpSpec) ==
    tpSpec >= 0 /\ 4 * OffsetSquared(dev) <= tpSpec * tpSpec

\* C26: in either mode, with non-negative position specs, if the status is
\* SAFE and the simulated true-position diameter does not exceed hole1's
\* declared position spec, the simulation shows no interference.
C26_SafeWithinSpecIsClear ==
    (/\ hole1.tpSpec >= 0 /\ hole2.tpSpec >= 0
     /\ analysis.status = "SAFE"
     /\ TruePositionWithin(deviation, hole1.tpSpec))
        => ~analysis.isSimulationInterference

\* a SAFE fixed-fastener form whose two specs use the whole budget and
\* whose deviation uses hole1's whole position spec
C26_Witness ==
    /\ mode = FIXED
    /\ analysis.status = "SAFE"
    /\ hole1.tpSpec > 0 /\ hole2.tpSpec > 0
    /\ deviation.x > 0
    /\ 4 * OffsetSquared(deviation) = hole1.tpSpec * hole1.tpSpec
    /\ hole1.tpSpec + hole2.tpSpec = Clearance(hole1)
    /\ ~analysis.isSimulationInterference

----------------------------------------------------------------------------
(* C27 *)

\* C27 as stated: in FLOATING mode, whenever the larger of the two declared
\* position specs exceeds the binding clearance
\* (maxAllowablePositionTolerance), the status is FAIL.
C27_LargerSpecOverBindingFails ==
    (mode = FLOATING
     /\ Max(hole1.tpSpec, hole2.tpSpec) > analysis.maxAllowableTP)
        => analysis.status = "FAIL"

\* C27 amended: in FLOATING mode the status is FAIL only if the larger of
\* the two declared position specs exceeds the binding clearance; when it
\* does and the two holes have the same clearance the status is FAIL; and
\* whenever each spec is within its own hole's clearance the status is
\* SAFE, also when the larger spec exceeds the binding clearance.
C27_FailNeedsSpecOverBinding ==
    mode = FLOATING =>
        /\ analysis.status = "FAIL"
              => Max(hole1.tpSpec, hole2.tpSpec) > analysis.maxAllowableTP
        /\ (/\ Clearance(hole1) = Clearance(hole2)
            /\ Max(hole1.tpSpec, hole2.tpSpec) > analysis.maxAllowableTP)
              => analysis.status = "FAIL"
        /\ (/\ hole1.tpSpec <= Clearance(hole1)
            /\ hole2.tpSpec <= Clearance(hole2))
              => analysis.status = "SAFE"

\* hole2's spec is the larger one and exceeds the binding clearance, which
\* is hole1's, yet the status is SAFE
C27_Witness ==
    /\ mode = FLOATING
    /\ hole2.tpSpec > hole1.tpSpec
    /\ hole2.tpSpec > analysis.maxAllowableTP
    /\ analysis.maxAllowableTP = Clearance(hole1)
    /\ analysis.status = "SAFE"

----------------------------------------------------------------------------
(* C28 *)

\* C28: toggling the unit does not change the verdict: status and
\* isSimulatedInterference after handleToggleUnit are what they were
\* before it.
C28_ToggleKeepsVerdict ==
    [][handleToggleUnit =>
          /\ analysis'.status = analysis.status
          /\ analysis'.isSimulationInterference
                = analysis.isSimulationInterference]_vars

----------------------------------------------------------------------------
(* C29 *)

\* C29: every numeric input held in the state of the hole-fit form is a
\* number, never NaN (an emptied field is stored as 0), the X and Y
\* deviations included, so that actualRadialOffset is a number and
\* isSimulatedInterference is computed from numbers.
C29_InputsAreNumbers ==
    /\ \A part \in {pin, hole1, hole2} : \A field \in PartFields :
           ~IsNaN(part[field])
    /\ ~IsNaN(deviation.x) /\ ~IsNaN(deviation.y)
    /\ ~IsNaN(analysis.actualOffset)
    /\ ~IsNaN(analysis.actualTP)

----------------------------------------------------------------------------
(* C30 *)

Sign(x) == IF x < 0 THEN -1 ELSE IF x > 0 THEN 1 ELSE 0

\* C30: the loop diagram labels the gap "Interference" exactly when
\* nominalGap < 0 and "Gap" otherwise: the sign of gapPixelWidth is the sign
\* of nominalGap, for every dimension list, nominals of any sign.
C30_LabelFollowsNominalGap ==
    /\ GapLabel(dimensions) = "Interference" <=> results.nominalGap < 0
    /\ Sign(gapPixelWidth(dimensions).num) = Sign(results.nominalGap)

====
